---- MODULE Spec2Model ----
(***************************************************************************)
(* Record Store of the memory-capture application (lib/database): the      *)
(* SQLite tables memories and focus_goals, the lazily opened module-level  *)
(* handle db, and the asynchronous operations on them.                     *)
(*                                                                         *)
(* A single SQL statement is atomic; an operation that issues two          *)
(* statements (setActiveFocusGoal) gives up control at the await between   *)
(* them, so it is modelled as one step per statement.  Statements are      *)
(* executed in the order they are submitted, hence submission and          *)
(* execution of a statement are one step.                                  *)
(*                                                                         *)
(* Timestamps (ISO-8601 strings, ordered as the instants they denote) are  *)
(* natural numbers.  SQL NULL in a TEXT column is the value NULL; a        *)
(* nullable timestamp is <<>> (NULL) or <<t>>.                             *)
(***************************************************************************)
EXTENDS Integers, Sequences, FiniteSets, TLC

VARIABLES
    db,         \* the module-level handle: "null" or "open"
    memories,   \* table memories: id -> row
    memSeq,     \* AUTOINCREMENT counter of memories (largest id ever given)
    goals,      \* table focus_goals: id -> row
    goalSeq,    \* AUTOINCREMENT counter of focus_goals
    now,        \* the device clock read by new Date()
    calls,      \* setActiveFocusGoal and initDatabase calls in flight: slot -> [pc, id]
    ret,        \* what the last completed call returned to its caller
    prefs,      \* table user_preferences: id -> row
    tz,         \* the device's timezone offset from UTC, in hours
    capture,    \* the open capture screen: [phase, location]
    local       \* the process-local store: reducer state, file, writes in flight

vars == <<db, memories, memSeq, goals, goalSeq, now, calls, ret, prefs, tz, capture, local>>

\* ------------------------------------------------------------------ bounds
MaxMemories == 2    \* addMemory calls made in a run
MaxClock    == 1    \* clock readings 0..MaxClock
MaxViews    == 2    \* incrementViewCount stops at this viewCount
MaxGoals    == 2    \* addFocusGoal calls made in a run
MaxCalls    == 2    \* setActiveFocusGoal calls that may be in flight at once

NULL == "NULL"

Times     == 0..MaxClock
MemoryIds == 1..(MaxMemories + 1)   \* one id more than is ever stored
GoalIds   == 1..(MaxGoals + 1)
Slots     == 1..MaxCalls

\* No capture screen is open.
ClosedCapture == [phase |-> "closed", location |-> <<>>, permission |-> "unasked"]

\* The process-local store as MemoryProvider mounts: the reducer's
\* initialState, no file yet, the load not resolved, no write in flight.
\* <<>> is null, <<v>> the value v.
UnloadedStore ==
    [items |-> <<>>, focusGoal |-> <<>>, file |-> <<>>, loading |-> TRUE,
     writes |-> {}, itemSeq |-> 0]

MaxItems == 1     \* addMemory calls of the process-local store in a run
MaxWrites == 2    \* writeAsStringAsync calls in flight at a time

\* ------------------------------------------------------------ the handle
\* getDatabase: opens the store (initDatabase) when the handle is null.  The
\* CREATE TABLE IF NOT EXISTS statements leave existing tables as they are.
getDatabase == "open"

\* Variant: the themeMode column defaults to 'light'.
DefaultPreferencesRow_Light ==
    [id |-> 1, displayName |-> "User", avatarIndex |-> 0, themeMode |-> "light",
     locationEnabled |-> 0]

\* The row INSERT OR IGNORE INTO user_preferences (id) VALUES (1) creates:
\* every other column takes its DEFAULT.
DefaultPreferencesRow ==
    [id |-> 1, displayName |-> "User", avatarIndex |-> 0, themeMode |-> "auto",
     locationEnabled |-> 0]

\* Variant: the statement is INSERT OR REPLACE, which resets the row.
InsertOrIgnorePreferences_Replace(table) == [i \in {1} |-> DefaultPreferencesRow]

\* Variant: the INSERT OR IGNORE statement is left out of initDatabase.
InsertOrIgnorePreferences_None(table) == table

\* INSERT OR IGNORE INTO user_preferences (id) VALUES (1)
InsertOrIgnorePreferences(table) ==
    IF 1 \in DOMAIN table THEN table ELSE [i \in {1} |-> DefaultPreferencesRow]

\* user_preferences once getDatabase has returned: initDatabase has run if the
\* handle was null.
OpenedPreferences ==
    IF db = "null" THEN InsertOrIgnorePreferences(prefs) ELSE prefs

\* A completed call, as its caller sees it: the operation, the id it was given
\* (<<>> when it takes none), how it ended and the value it resolved to.
\* again tells a call that repeats the one completed just before it.
Returned(op, arg, status, value) ==
    [op |-> op, arg |-> arg, status |-> status, value |-> value,
     again |-> (ret.op = op /\ ret.arg = arg)]

\* ------------------------------------------------------------- memories
\* The argument of addMemory: Omit<Memory, "id" | "viewCount" | "lastViewedAt">.
\* Four shapes of capture, each at any createdAt.
MemoryShapes ==
    { [content |-> "note", contentType |-> "text",  audioUri |-> NULL, imageUri |-> NULL],
      [content |-> "",     contentType |-> "text",  audioUri |-> NULL, imageUri |-> NULL],
      [content |-> "",     contentType |-> "photo", audioUri |-> NULL, imageUri |-> "file"],
      [content |-> "note", contentType |-> "voice", audioUri |-> "file", imageUri |-> NULL] }

\* What TextInputScreen.handleSave passes: the trimmed text, stamped new Date().
TextNote(at) ==
    [content |-> "note", contentType |-> "text", createdAt |-> at,
     audioUri |-> NULL, imageUri |-> NULL]

MemoryInputs ==
    { [content |-> s.content, contentType |-> s.contentType, createdAt |-> t,
       audioUri |-> s.audioUri, imageUri |-> s.imageUri] : s \in MemoryShapes, t \in Times }

\* memory.f ?? null for an optional field f: <<>> is NULL, <<v>> the value v.
Nullable(memory, f) == IF f \in DOMAIN memory THEN <<memory[f]>> ELSE <<>>

\* Variant: the inserted row counts the insertion as a view.
InsertMemoryRow_ViewCountOne(id, memory) ==
    [id |-> id, content |-> memory.content, contentType |-> memory.contentType,
     createdAt |-> memory.createdAt, audioUri |-> memory.audioUri,
     imageUri |-> memory.imageUri, viewCount |-> 1, lastViewedAt |-> <<>>,
     latitude |-> Nullable(memory, "latitude"),
     linkUrl |-> Nullable(memory, "linkUrl"),
     focusTags |-> Nullable(memory, "focusTags")]

\* The row INSERT INTO memories (...) VALUES (...) stores: the columns it does
\* not name take their defaults (viewCount 0, lastViewedAt NULL). longitude
\* goes with latitude, linkTitle and linkPreview go with linkUrl, and no
\* caller gives locationName; these are not held apart.
InsertMemoryRow(id, memory) ==
    [id |-> id, content |-> memory.content, contentType |-> memory.contentType,
     createdAt |-> memory.createdAt, audioUri |-> memory.audioUri,
     imageUri |-> memory.imageUri, viewCount |-> 0, lastViewedAt |-> <<>>,
     latitude |-> Nullable(memory, "latitude"),
     linkUrl |-> Nullable(memory, "linkUrl"),
     focusTags |-> Nullable(memory, "focusTags")]

\* ORDER BY createdAt DESC over a table; rows of equal createdAt in rowid order.
RECURSIVE OrderByCreatedAtDesc(_)
OrderByCreatedAtDesc(rows) ==
    IF rows = {} THEN <<>>
    ELSE LET first == CHOOSE r \in rows :
                        \A q \in rows :
                            \/ r.createdAt > q.createdAt
                            \/ r.createdAt = q.createdAt /\ r.id <= q.id
         IN  <<first>> \o OrderByCreatedAtDesc(rows \ {first})

Rows(table) == { table[i] : i \in DOMAIN table }

\* getAllMemories: SELECT * FROM memories ORDER BY createdAt DESC
getAllMemories(table) == OrderByCreatedAtDesc(Rows(table))

\* addMemory(memory): one INSERT; returns lastInsertRowId.
addMemory(memory) ==
    /\ memSeq < MaxMemories
    /\ db' = getDatabase
    /\ prefs' = OpenedPreferences
    /\ memSeq' = memSeq + 1
    /\ memories' = [i \in DOMAIN memories \cup {memSeq + 1} |->
                      IF i = memSeq + 1 THEN InsertMemoryRow(memSeq + 1, memory)
                      ELSE memories[i]]
    /\ ret' = Returned("addMemory", <<>>, "ok", <<memSeq + 1>>)
    /\ UNCHANGED <<goals, goalSeq, now, calls, tz, capture, local>>

\* The arguments updateMemory is given: Partial<Memory>.
MemoryUpdates ==
    { <<>>,
      [id |-> 1],
      [content |-> "note"],
      [viewCount |-> 0],
      [id |-> 1, content |-> "note"] }

\* Variant: the key "id" is not skipped.
UpdateFields_WithId(updates) == DOMAIN updates

\* The SET list updateMemory builds: every key of updates but "id".
UpdateFields(updates) == DOMAIN updates \ {"id"}

\* UPDATE memories SET f = ?, ... WHERE id = ?
UpdateMemoryRows(table, id, updates) ==
    [i \in DOMAIN table |->
        IF i = id
        THEN [f \in DOMAIN table[i] |->
                IF f \in UpdateFields(updates) THEN updates[f] ELSE table[i][f]]
        ELSE table[i]]

\* updateMemory(id, updates): no statement when the SET list is empty; the
\* UPDATE matches no row, and raises nothing, when id is absent.
updateMemory(id, updates) ==
    /\ db' = getDatabase
    /\ prefs' = OpenedPreferences
    /\ memories' = IF UpdateFields(updates) # {}
                   THEN UpdateMemoryRows(memories, id, updates)
                   ELSE memories
    /\ ret' = Returned("updateMemory", <<id>>, "ok", <<>>)
    /\ UNCHANGED <<memSeq, goals, goalSeq, now, calls, tz, capture, local>>

\* Variant: DELETE FROM memories WHERE id <= ?
DeleteMemoryRows_UpTo(table, id) ==
    [i \in { j \in DOMAIN table : j > id } |-> table[i]]

\* DELETE FROM memories WHERE id = ?
DeleteMemoryRows(table, id) ==
    [i \in DOMAIN table \ {id} |-> table[i]]

\* deleteMemory(id)
deleteMemory(id) ==
    /\ db' = getDatabase
    /\ prefs' = OpenedPreferences
    /\ memories' = DeleteMemoryRows(memories, id)
    /\ ret' = Returned("deleteMemory", <<id>>, "ok", <<>>)
    /\ UNCHANGED <<memSeq, goals, goalSeq, now, calls, tz, capture, local>>

\* Variant: UPDATE memories SET viewCount = viewCount + 1 WHERE id = ?
IncrementRows_KeepLastViewed(table, id, at) ==
    [i \in DOMAIN table |->
        IF i = id THEN [table[i] EXCEPT !.viewCount = @ + 1] ELSE table[i]]

\* UPDATE memories SET viewCount = viewCount + 1, lastViewedAt = ? WHERE id = ?
IncrementRows(table, id, at) ==
    [i \in DOMAIN table |->
        IF i = id
        THEN [table[i] EXCEPT !.viewCount = @ + 1, !.lastViewedAt = <<at>>]
        ELSE table[i]]

\* incrementViewCount(id), with new Date() read as the statement is built.
incrementViewCount(id) ==
    /\ id \in DOMAIN memories => memories[id].viewCount < MaxViews
    /\ db' = getDatabase
    /\ prefs' = OpenedPreferences
    /\ memories' = IncrementRows(memories, id, now)
    /\ ret' = Returned("incrementViewCount", <<id>>, "ok", <<>>)
    /\ UNCHANGED <<memSeq, goals, goalSeq, now, calls, tz, capture, local>>

\* initDatabase(): called by every screen as it loads.
initDatabase ==
    /\ db' = getDatabase
    /\ prefs' = InsertOrIgnorePreferences(prefs)
    /\ UNCHANGED <<memories, memSeq, goals, goalSeq, now, calls, ret, tz, capture, local>>

\* Time passes.
Tick ==
    /\ now < MaxClock
    /\ now' = now + 1
    /\ UNCHANGED <<db, memories, memSeq, goals, goalSeq, calls, ret, prefs, tz, capture, local>>

\* ---------------------------------------------------------- focus_goals
GoalNames == {"work travel", "personal"}

\* A call's id argument: <<>> is null, <<n>> the number n.
GoalArgs == {<<>>} \cup { <<n>> : n \in GoalIds }

AllIdle == \A s \in Slots : calls[s].pc = "idle"

\* INSERT INTO focus_goals (name, createdAt): isActive takes its default 0.
InsertGoalRow(id, name, at) ==
    [id |-> id, name |-> name, isActive |-> 0, createdAt |-> at]

\* getFocusGoals: SELECT * FROM focus_goals ORDER BY createdAt DESC
getFocusGoals(table) == OrderByCreatedAtDesc(Rows(table))

\* The rows a caller holding the result of getFocusGoals takes as active
\* (isActive is the stored integer, read for its truth value).
ActiveRows(rows) == { i \in 1..Len(rows) : rows[i].isActive # 0 }

ActiveGoals(table) == { i \in DOMAIN table : table[i].isActive # 0 }

\* addFocusGoal(name): one INSERT, stamped new Date().
addFocusGoal(name) ==
    /\ goalSeq < MaxGoals
    /\ db' = getDatabase
    /\ prefs' = OpenedPreferences
    /\ goalSeq' = goalSeq + 1
    /\ goals' = [i \in DOMAIN goals \cup {goalSeq + 1} |->
                    IF i = goalSeq + 1 THEN InsertGoalRow(goalSeq + 1, name, now)
                    ELSE goals[i]]
    /\ ret' = Returned("addFocusGoal", <<>>, "ok", <<goalSeq + 1>>)
    /\ UNCHANGED <<memories, memSeq, now, calls, tz, capture, local>>

\* deleteFocusGoal(id): DELETE FROM focus_goals WHERE id = ?
deleteFocusGoal(id) ==
    /\ db' = getDatabase
    /\ prefs' = OpenedPreferences
    /\ goals' = [i \in DOMAIN goals \ {id} |-> goals[i]]
    /\ ret' = Returned("deleteFocusGoal", <<id>>, "ok", <<>>)
    /\ UNCHANGED <<memories, memSeq, goalSeq, now, calls, tz, capture, local>>

\* A read of the table by getFocusGoals(): one SELECT.
readFocusGoals ==
    /\ db' = getDatabase
    /\ prefs' = OpenedPreferences
    /\ ret' = Returned("getFocusGoals", <<>>, "ok", getFocusGoals(goals))
    /\ UNCHANGED <<memories, memSeq, goals, goalSeq, now, calls, tz, capture, local>>

\* Variant: the deactivating statement is left out.
DeactivateAll_None(table) == table

\* UPDATE focus_goals SET isActive = 0
DeactivateAll(table) ==
    [i \in DOMAIN table |-> [table[i] EXCEPT !.isActive = 0]]

\* Variant: UPDATE focus_goals SET isActive = 1
Activate_NoWhere(table, id) ==
    [i \in DOMAIN table |-> [table[i] EXCEPT !.isActive = 1]]

\* UPDATE focus_goals SET isActive = 1 WHERE id = ?
Activate(table, id) ==
    [i \in DOMAIN table |->
        IF i = id THEN [table[i] EXCEPT !.isActive = 1] ELSE table[i]]

ActivateStatement == "UPDATE focus_goals SET isActive = 1 WHERE id = ?"
DeactivateStatement == "UPDATE focus_goals SET isActive = 0"

\* setActiveFocusGoal(id), first statement: every goal is deactivated, and
\* the call waits for the statement's promise.
setActive_Deactivate(s, id) ==
    /\ calls[s].pc = "idle"
    /\ db' = getDatabase
    /\ prefs' = OpenedPreferences
    /\ goals' = DeactivateAll(goals)
    /\ calls' = [calls EXCEPT ![s] = [pc |-> "deactivated", id |-> id]]
    /\ UNCHANGED <<memories, memSeq, goalSeq, now, ret, tz, capture, local>>

\* The first statement is rejected: the call throws, no row is written.
setActive_DeactivateFails(s, id) ==
    /\ calls[s].pc = "idle"
    /\ db' = getDatabase
    /\ prefs' = OpenedPreferences
    /\ ret' = Returned("setActiveFocusGoal", id, "StorageError", <<DeactivateStatement>>)
    /\ UNCHANGED <<memories, memSeq, goals, goalSeq, now, calls, tz, capture, local>>

\* setActiveFocusGoal(id), after the await: the second statement when id is
\* not null, and the call returns.
setActive_Activate(s) ==
    /\ calls[s].pc = "deactivated"
    /\ goals' = IF calls[s].id # <<>> THEN Activate(goals, calls[s].id[1]) ELSE goals
    /\ calls' = [calls EXCEPT ![s] = [pc |-> "idle", id |-> <<>>]]
    /\ ret' = Returned("setActiveFocusGoal", calls[s].id, "ok", <<>>)
    /\ UNCHANGED <<db, memories, memSeq, goalSeq, now, prefs, tz, capture, local>>

\* The second statement is rejected: the call throws, no row is written.
setActive_ActivateFails(s) ==
    /\ calls[s].pc = "deactivated"
    /\ calls[s].id # <<>>
    /\ calls' = [calls EXCEPT ![s] = [pc |-> "idle", id |-> <<>>]]
    /\ ret' = Returned("setActiveFocusGoal", calls[s].id, "StorageError", <<ActivateStatement>>)
    /\ UNCHANGED <<db, memories, memSeq, goals, goalSeq, now, prefs, tz, capture, local>>

\* ------------------------------------------------------------- queries
ContentTypes == { s.contentType : s \in MemoryShapes }
Limits == 0..(MaxMemories + 1)

\* LIMIT n over an ordered result: its first n rows, all of it when shorter.
Limit(rows, n) == [i \in 1..(IF n < Len(rows) THEN n ELSE Len(rows)) |-> rows[i]]

\* getMemoriesByType: SELECT * FROM memories WHERE contentType = ?
\*                    ORDER BY createdAt DESC
getMemoriesByType(table, type) ==
    OrderByCreatedAtDesc({ r \in Rows(table) : r.contentType = type })

\* Variant: the upper end of the range is excluded.
getMemoriesByDateRange_Exclusive(table, startDate, endDate) ==
    OrderByCreatedAtDesc({ r \in Rows(table) :
                             r.createdAt >= startDate /\ r.createdAt < endDate })

\* getMemoriesByDateRange: SELECT * FROM memories
\*                         WHERE createdAt >= ? AND createdAt <= ?
\*                         ORDER BY createdAt DESC
getMemoriesByDateRange(table, startDate, endDate) ==
    OrderByCreatedAtDesc({ r \in Rows(table) :
                             r.createdAt >= startDate /\ r.createdAt <= endDate })

\* getRecentMemories: SELECT * FROM memories ORDER BY createdAt DESC LIMIT ?
getRecentMemories(table, limit) == Limit(OrderByCreatedAtDesc(Rows(table)), limit)

\* ------------------------------------------------------ user_preferences
\* The arguments updateUserPreferences is given: Partial<UserPreferences>.
\* ProfileScreen passes {avatarIndex} and {locationEnabled: !current}.
PreferenceUpdates ==
    { <<>>,
      [avatarIndex |-> 1],
      [locationEnabled |-> TRUE],
      [locationEnabled |-> FALSE],
      [themeMode |-> "dark", displayName |-> "Sam"],
      [id |-> 2],
      [id |-> 2, avatarIndex |-> 2] }

\* The fields of UserPreferences whose values have typeof "boolean".
BooleanFields == {"locationEnabled"}

\* The value bound to a column's placeholder:
\* typeof value === "boolean" ? (value ? 1 : 0) : value
BoundValue(key, value) ==
    IF key \in BooleanFields THEN (IF value THEN 1 ELSE 0) ELSE value

\* How JavaScript reads an INTEGER column as a condition.
Truthy(n) == n # 0

\* What getUserPreferences resolves to: the row SELECT * FROM user_preferences
\* WHERE id = 1 finds, or the literal object when it finds none.
PreferencesRow(table) ==
    IF 1 \in DOMAIN table THEN table[1]
    ELSE [id |-> 1, displayName |-> "User", avatarIndex |-> 0,
          themeMode |-> "auto", locationEnabled |-> FALSE]

\* Variant: the statement writes a whole row, the unnamed columns at their
\* defaults.
UpdatePreferencesRows_Replace(table, updates) ==
    [i \in DOMAIN table |->
        IF i = 1
        THEN [f \in DOMAIN table[i] |->
                IF f \in UpdateFields(updates) THEN BoundValue(f, updates[f])
                ELSE DefaultPreferencesRow[f]]
        ELSE table[i]]

\* UPDATE user_preferences SET <key = ?, ...> WHERE id = 1
UpdatePreferencesRows(table, updates) ==
    [i \in DOMAIN table |->
        IF i = 1
        THEN [f \in DOMAIN table[i] |->
                IF f \in UpdateFields(updates) THEN BoundValue(f, updates[f])
                ELSE table[i][f]]
        ELSE table[i]]

getUserPreferences ==
    /\ db' = getDatabase
    /\ prefs' = OpenedPreferences
    /\ ret' = Returned("getUserPreferences", <<>>, "ok", PreferencesRow(OpenedPreferences))
    /\ UNCHANGED <<memories, memSeq, goals, goalSeq, now, calls, tz, capture, local>>

\* updateUserPreferences(updates): the key "id" is skipped, and no statement
\* is issued when no key is left.
updateUserPreferences(updates) ==
    /\ db' = getDatabase
    /\ prefs' = IF UpdateFields(updates) # {}
                THEN UpdatePreferencesRows(OpenedPreferences, updates)
                ELSE OpenedPreferences
    /\ ret' = Returned("updateUserPreferences", <<>>, "ok", <<>>)
    /\ UNCHANGED <<memories, memSeq, goals, goalSeq, now, calls, tz, capture, local>>

\* ---------------------------------------------------- frequently viewed
\* LIMIT 5 of getMorningMemories and getFrequentlyViewedMemories, and the 5
\* DiscoverScreen passes to getRecentMemories.
SuggestionLimit == 5

\* One row more than the limit keeps, so that the limit drops a row.
MaxRows == SuggestionLimit + 1

\* ORDER BY viewCount DESC; rows of equal viewCount in rowid order.
RECURSIVE OrderByViewCountDesc(_)
OrderByViewCountDesc(rows) ==
    IF rows = {} THEN <<>>
    ELSE LET first == CHOOSE r \in rows :
                        \A q \in rows :
                            \/ r.viewCount > q.viewCount
                            \/ r.viewCount = q.viewCount /\ r.id <= q.id
         IN  <<first>> \o OrderByViewCountDesc(rows \ {first})

\* Variant: the WHERE clause is left out.
getFrequentlyViewedMemories_Unfiltered(table) ==
    Limit(OrderByViewCountDesc(Rows(table)), SuggestionLimit)

\* getFrequentlyViewedMemories: SELECT * FROM memories WHERE viewCount > 0
\*                              ORDER BY viewCount DESC LIMIT 5
getFrequentlyViewedMemories(table) ==
    Limit(OrderByViewCountDesc({ r \in Rows(table) : r.viewCount > 0 }),
          SuggestionLimit)

\* A call of getFrequentlyViewedMemories.
readFrequentlyViewed ==
    /\ db' = getDatabase
    /\ prefs' = OpenedPreferences
    /\ ret' = Returned("getFrequentlyViewedMemories", <<>>, "ok",
                       getFrequentlyViewedMemories(memories))
    /\ UNCHANGED <<memories, memSeq, goals, goalSeq, now, calls, tz, capture, local>>

\* ----------------------------------------------------------------- dates
\* Instants are counted in hours from 00:00 UTC of day 0; createdAt holds the
\* instant that new Date().toISOString() wrote. tz is the device's offset
\* from UTC in hours, taken as fixed (no daylight-saving change).
MaxDay == 2
MaxDateRows == 3

DayHours == {2, 10, 22}
Offsets == {-5, 0, 3}
Instants == { d * 24 + h : d \in 0..MaxDay, h \in DayHours }

\* The date an ISO string starts with, toISOString().split("T")[0], which is
\* also what SQLite's date(createdAt) gives: the calendar date in UTC.
UtcDate(t) == t \div 24

\* The calendar date toDateString() shows: the date on the device.
LocalDate(t, offset) == (t + offset) \div 24

\* getHours(): the hour on the device.
LocalHour(t, offset) == (t + offset) % 24

\* setDate(getDate() - 1): the same time of day, one day earlier.
Yesterday(t) == t - 24

\* new Date("YYYY-MM-DD"): a date-only string is read as 00:00 UTC of that date.
ParseDate(date) == date * 24

\* getTodayMemoryCount: today = new Date().toISOString().split("T")[0];
\* SELECT COUNT(*) FROM memories WHERE date(createdAt) = today
getTodayMemoryCount(table, at, offset) ==
    Cardinality({ r \in Rows(table) : UtcDate(r.createdAt) = UtcDate(at) })

\* getMorningMemories: yesterdayStr as above from a Date set one day back;
\* SELECT * FROM memories WHERE date(createdAt) = yesterdayStr
\* ORDER BY createdAt DESC LIMIT 5
getMorningMemories(table, at, offset) ==
    Limit(OrderByCreatedAtDesc({ r \in Rows(table) :
                                   UtcDate(r.createdAt) = UtcDate(Yesterday(at)) }),
          SuggestionLimit)

\* DiscoverScreen.loadData: the query is chosen by the hour on the device, and
\* an empty result is replaced by the five most recent records.
Suggestions(table, at, offset) ==
    LET hour  == LocalHour(at, offset)
        first == IF hour < 12 THEN getMorningMemories(table, at, offset)
                 ELSE IF hour < 17 THEN getRecentMemories(table, 5)
                 ELSE getFrequentlyViewedMemories(table)
    IN  IF Len(first) = 0 THEN getRecentMemories(table, 5) ELSE first

\* formatDate(dateString): the label of a date, compared on the device's
\* calendar with today and with the day before; otherwise the date written
\* out (weekday, month, day), held here as the date it names.
formatDate(date, at, offset) ==
    LET shown == LocalDate(ParseDate(date), offset)
    IN  IF shown = LocalDate(at, offset)
        THEN [label |-> "Today", day |-> <<>>]
        ELSE IF shown = LocalDate(Yesterday(at), offset)
        THEN [label |-> "Yesterday", day |-> <<>>]
        ELSE [label |-> "formatted", day |-> <<shown>>]

\* Dates in descending order: sort((a, b) => b[0].localeCompare(a[0])).
RECURSIVE SortDatesDesc(_)
SortDatesDesc(dates) ==
    IF dates = {} THEN <<>>
    ELSE LET first == CHOOSE d \in dates : \A e \in dates : d >= e
         IN  <<first>> \o SortDatesDesc(dates \ {first})

GroupDates(list) == { UtcDate(list[i].createdAt) : i \in 1..Len(list) }

\* Variant: the groups are sorted by date ascending.
groupMemoriesByDate_OldestFirst(list, at, offset) ==
    LET dates == SortDatesDesc(GroupDates(list))
        n     == Len(dates)
    IN  [g \in 1..n |->
           [date          |-> dates[n + 1 - g],
            formattedDate |-> formatDate(dates[n + 1 - g], at, offset),
            data          |-> SelectSeq(list, LAMBDA m :
                                  UtcDate(m.createdAt) = dates[n + 1 - g])]]

\* groupMemoriesByDate(memories): each record is pushed, in list order, to the
\* group keyed by createdAt.split("T")[0]; the groups are then sorted by key.
groupMemoriesByDate(list, at, offset) ==
    LET dates == SortDatesDesc(GroupDates(list))
    IN  [g \in 1..Len(dates) |->
           [date          |-> dates[g],
            formattedDate |-> formatDate(dates[g], at, offset),
            data          |-> SelectSeq(list, LAMBDA m :
                                  UtcDate(m.createdAt) = dates[g])]]

\* ProfileScreen.loadData reads the number of records saved today.
readTodayMemoryCount ==
    /\ db' = getDatabase
    /\ prefs' = OpenedPreferences
    /\ ret' = Returned("getTodayMemoryCount", <<>>, "ok",
                       <<getTodayMemoryCount(memories, now, tz)>>)
    /\ UNCHANGED <<memories, memSeq, goals, goalSeq, now, calls, tz, capture, local>>

\* DiscoverScreen.loadData, up to setSuggestions.
loadSuggestions ==
    /\ db' = getDatabase
    /\ prefs' = OpenedPreferences
    /\ ret' = Returned("loadSuggestions", <<>>, "ok", Suggestions(memories, now, tz))
    /\ UNCHANGED <<memories, memSeq, goals, goalSeq, now, calls, tz, capture, local>>

\* TimelineScreen.loadMemories.
loadMemories ==
    /\ db' = getDatabase
    /\ prefs' = OpenedPreferences
    /\ ret' = Returned("loadMemories", <<>>, "ok",
                       groupMemoriesByDate(getAllMemories(memories), now, tz))
    /\ UNCHANGED <<memories, memSeq, goals, goalSeq, now, calls, tz, capture, local>>

\* ------------------------------------------------------------------ text
\* Text that is searched, split or trimmed is held as the sequence of its
\* characters; a space stands for every whitespace character.
IsSpace(c) == c = " "

\* String.prototype.toLowerCase, on the letters used here.
LowerChar(c) ==
    CASE c = "W" -> "w"
      [] c = "T" -> "t"
      [] c = "P" -> "p"
      [] c = "M" -> "m"
      [] c = "I" -> "i"
      [] c = "A" -> "a"
      [] c = "F" -> "f"
      [] OTHER   -> c

toLowerCase(s) == [i \in 1..Len(s) |-> LowerChar(s[i])]

\* String.prototype.includes: key occurs in text as a run of characters; the
\* empty key occurs in every text.
includes(text, key) ==
    \E i \in 0..(Len(text) - Len(key)) : SubSeq(text, i + 1, i + Len(key)) = key

\* String.prototype.trim: leading and trailing whitespace removed.
RECURSIVE trim(_)
trim(s) ==
    IF s = <<>> THEN s
    ELSE IF IsSpace(s[1]) THEN trim(Tail(s))
    ELSE IF IsSpace(s[Len(s)]) THEN trim(SubSeq(s, 1, Len(s) - 1))
    ELSE s

\* The first position from i on that holds no whitespace, Len(s) + 1 if none.
RECURSIVE SkipSpaces(_, _)
SkipSpaces(s, i) ==
    IF i <= Len(s) /\ IsSpace(s[i]) THEN SkipSpaces(s, i + 1) ELSE i

\* s.split(/\s+/) from position i on, piece being the characters read since
\* the last separator: every run of whitespace ends a piece, so a string that
\* starts or ends with whitespace, and the empty string, yield an empty piece.
RECURSIVE SplitFrom(_, _, _)
SplitFrom(s, i, piece) ==
    IF i > Len(s) THEN <<piece>>
    ELSE IF IsSpace(s[i]) THEN <<piece>> \o SplitFrom(s, SkipSpaces(s, i), <<>>)
    ELSE SplitFrom(s, i + 1, Append(piece, s[i]))

SplitWhitespace(s) == SplitFrom(s, 1, <<>>)

\* ------------------------------------------------------------ focus mode
\* Notes as addMemory may be given them: content and the optional focusTags.
FocusNotes ==
    { [content |-> <<"p", "e", "r", "s", "o", "n", "a", "l">>, contentType |-> "text", createdAt |-> 0,
       audioUri |-> NULL, imageUri |-> NULL],
      [content |-> <<"n", "o", "t", "e", "s">>, contentType |-> "text", createdAt |-> 0,
       audioUri |-> NULL, imageUri |-> NULL,
       focusTags |-> <<"T", "r", "a", "v", "e", "l", "-", "p", "l", "a", "n", "s">>],
      [content |-> <<"a", "t", " ", "W", "o", "r", "k">>, contentType |-> "text", createdAt |-> 0,
       audioUri |-> NULL, imageUri |-> NULL] }

\* What is typed into the new-goal field of FocusModeScreen.
GoalInputs ==
    { <<"w", "o", "r", "k", " ", "t", "r", "a", "v", "e", "l">>,
      <<" ", "W", "o", "r", "k", " ", " ", "T", "r", "a", "v", "e", "l", " ">>,
      <<"p", "e", "r", "s", "o", "n", "a", "l">>,
      <<" ", " ">>,
      <<>> }

\* Names addFocusGoal may be given by a caller that does not trim them.
UntrimmedGoalNames ==
    { <<>>,
      <<" ", "w", "o", "r", "k">>,
      <<"t", "r", "a", "v", "e", "l", " ">>,
      <<"w", "o", "r", "k", " ", "t", "r", "a", "v", "e", "l">> }

\* memory.focusTags?.toLowerCase() || ""
TagsOf(memory) ==
    IF memory.focusTags = <<>> THEN <<>> ELSE toLowerCase(memory.focusTags[1])

\* Variant: only the content is searched.
filterMemories_ContentOnly(list, goalName) ==
    LET keywords == SplitWhitespace(toLowerCase(goalName))
    IN  SelectSeq(list, LAMBDA memory :
            \E k \in 1..Len(keywords) :
                includes(toLowerCase(memory.content), keywords[k]))

\* filterMemories(goalName), on the list getAllMemories returned: the records
\* for which some piece of the split name occurs in content or in focusTags.
filterMemories(list, goalName) ==
    LET keywords == SplitWhitespace(toLowerCase(goalName))
    IN  SelectSeq(list, LAMBDA memory :
            \E k \in 1..Len(keywords) :
                \/ includes(toLowerCase(memory.content), keywords[k])
                \/ includes(TagsOf(memory), keywords[k]))

\* FocusModeScreen shows the memories of a stored goal (handleSelectGoal and
\* loadData both end in filterMemories(goal.name)).
showGoalMemories(id) ==
    /\ id \in DOMAIN goals
    /\ db' = getDatabase
    /\ prefs' = OpenedPreferences
    /\ ret' = Returned("filterMemories", <<id>>, "ok",
                       filterMemories(getAllMemories(memories), goals[id].name))
    /\ UNCHANGED <<memories, memSeq, goals, goalSeq, now, calls, tz, capture, local>>

\* FocusModeScreen.handleCreateGoal: an input that is empty once trimmed is
\* refused with an alert; otherwise the trimmed input is stored.
handleCreateGoal(input) ==
    IF trim(input) = <<>>
    THEN /\ ret' = Returned("handleCreateGoal", <<>>, "rejected", <<>>)
         /\ UNCHANGED <<db, prefs, memories, memSeq, goals, goalSeq, now, calls, tz, capture, local>>
    ELSE addFocusGoal(trim(input))

\* ---------------------------------------------------------- record fields
\* Captures of three types, saved at time 0: a note, a photo and a link.
FieldInputs ==
    { TextNote(0),
      [content |-> "note", contentType |-> "photo", createdAt |-> 0,
       audioUri |-> NULL, imageUri |-> "file"],
      [content |-> "note", contentType |-> "link", createdAt |-> 0,
       audioUri |-> NULL, imageUri |-> NULL, linkUrl |-> "url"] }

\* Partial<Memory> arguments of updateMemory that name createdAt, contentType
\* or a type-specific field.
FieldUpdates ==
    { [createdAt |-> 1], [contentType |-> "voice"], [audioUri |-> "file"] }

\* ------------------------------------------------- initDatabase in steps
\* The tables exist once a CREATE TABLE batch has run; the batch also leaves
\* the preferences row, which nothing deletes.
TablesExist == prefs # <<>>

\* A call finds the store usable: the handle is null, so that getDatabase
\* runs initDatabase first, or the tables are there.
StoreReady == db = "null" \/ TablesExist

\* initDatabase() is called (by a screen as it loads, or by getDatabase) and
\* waits for openDatabaseAsync.
init_Start(s) ==
    /\ calls[s].pc = "idle"
    /\ calls' = [calls EXCEPT ![s] = [pc |-> "opening", id |-> <<>>]]
    /\ UNCHANGED <<db, prefs, memories, memSeq, goals, goalSeq, now, ret, tz, capture, local>>

\* openDatabaseAsync has resolved: the handle is assigned, and the call waits
\* for execAsync.
init_Opened(s) ==
    /\ calls[s].pc = "opening"
    /\ db' = getDatabase
    /\ calls' = [calls EXCEPT ![s] = [pc |-> "executing", id |-> <<>>]]
    /\ UNCHANGED <<prefs, memories, memSeq, goals, goalSeq, now, ret, tz, capture, local>>

\* execAsync has run the batch, CREATE TABLE IF NOT EXISTS for the three
\* tables and INSERT OR IGNORE of the preferences row, and the call returns.
init_Executed(s) ==
    /\ calls[s].pc = "executing"
    /\ prefs' = InsertOrIgnorePreferences(prefs)
    /\ calls' = [calls EXCEPT ![s] = [pc |-> "idle", id |-> <<>>]]
    /\ ret' = Returned("initDatabase", <<>>, "ok", <<>>)
    /\ UNCHANGED <<db, memories, memSeq, goals, goalSeq, now, tz, capture, local>>

\* A statement issued through a handle that is assigned while the first batch
\* has not run yet finds no table and is rejected.
addMemory_NoTable ==
    /\ db = "open" /\ ~TablesExist
    /\ ret' = Returned("addMemory", <<>>, "StorageError", <<>>)
    /\ UNCHANGED <<db, prefs, memories, memSeq, goals, goalSeq, now, calls, tz, capture, local>>

\* The application is closed and started again: the module's handle is null
\* again, calls in flight are gone, the database file is kept.
restart ==
    /\ db = "open"
    /\ db' = "null"
    /\ calls' = [s \in Slots |-> [pc |-> "idle", id |-> <<>>]]
    /\ UNCHANGED <<prefs, memories, memSeq, goals, goalSeq, now, ret, tz, capture, local>>

\* -------------------------------------------------------- capture screens
\* TextInputScreen and PhotoInputScreen: the mount effect getLocation runs in
\* steps while the screen is open, and handleSave stores what the screen holds.
\* capture.permission is what the permission request answered.

\* The screen is pushed: its state is fresh and getLocation has been called.
openCapture ==
    /\ capture.phase = "closed"
    /\ capture' = [phase |-> "reading", location |-> <<>>, permission |-> "unasked"]
    /\ UNCHANGED <<db, prefs, memories, memSeq, goals, goalSeq, now, calls, ret, tz, local>>

\* getLocation: getUserPreferences has resolved; it returns when
\* locationEnabled is not set.
getLocation_Preferences ==
    /\ capture.phase = "reading"
    /\ db' = getDatabase
    /\ prefs' = OpenedPreferences
    /\ capture' = [capture EXCEPT !.phase =
                      IF Truthy(PreferencesRow(OpenedPreferences).locationEnabled)
                      THEN "asking" ELSE "settled"]
    /\ UNCHANGED <<memories, memSeq, goals, goalSeq, now, calls, ret, tz, local>>

\* getLocation: requestForegroundPermissionsAsync has resolved; it returns
\* unless the status is "granted".
getLocation_Permission(status) ==
    /\ capture.phase = "asking"
    /\ capture' = [capture EXCEPT !.permission = status,
                                  !.phase = IF status = "granted" THEN "locating"
                                            ELSE "settled"]
    /\ UNCHANGED <<db, prefs, memories, memSeq, goals, goalSeq, now, calls, ret, tz, local>>

\* getLocation: getCurrentPositionAsync has resolved and setLocation is
\* called, or it was rejected and the catch block only logs.
getLocation_Position(found) ==
    /\ capture.phase = "locating"
    /\ capture' = [capture EXCEPT !.phase = "settled",
                                  !.location = IF found THEN <<"coords">> ELSE <<>>]
    /\ UNCHANGED <<db, prefs, memories, memSeq, goals, goalSeq, now, calls, ret, tz, local>>

\* The note handleSave passes to addMemory: latitude: location?.latitude.
CapturedNote ==
    IF capture.location = <<>> THEN TextNote(now)
    ELSE [f \in DOMAIN TextNote(now) \cup {"latitude"} |->
             IF f = "latitude" THEN capture.location[1] ELSE TextNote(now)[f]]

\* handleSave with a text that is not blank: addMemory, then goBack. It can be
\* pressed at any time while the screen is open.
handleSave ==
    /\ capture.phase # "closed"
    /\ memSeq < MaxMemories
    /\ db' = getDatabase
    /\ prefs' = OpenedPreferences
    /\ memSeq' = memSeq + 1
    /\ memories' = [i \in DOMAIN memories \cup {memSeq + 1} |->
                      IF i = memSeq + 1 THEN InsertMemoryRow(memSeq + 1, CapturedNote)
                      ELSE memories[i]]
    /\ ret' = Returned("addMemory", <<>>, "ok", <<memSeq + 1>>)
    /\ capture' = ClosedCapture
    /\ UNCHANGED <<goals, goalSeq, now, calls, tz, local>>

\* The screen is left without saving.
closeCapture ==
    /\ capture.phase # "closed"
    /\ capture' = ClosedCapture
    /\ UNCHANGED <<db, prefs, memories, memSeq, goals, goalSeq, now, calls, ret, tz, local>>

\* ProfileScreen.handleLocationToggle: the preference is set to its opposite.
handleLocationToggle ==
    updateUserPreferences(
        [locationEnabled |-> ~Truthy(PreferencesRow(OpenedPreferences).locationEnabled)])

\* ---------------------------------------------------- process-local store
\* MemoryProvider: local.items and local.focusGoal are the reducer's state,
\* local.file the content of memory-store.json (<<>> while there is none),
\* local.writes the documents of the writeAsStringAsync calls in flight,
\* local.loading whether loadFromDisk has yet to resolve. An item is held with
\* its id, type, title, tags and createdAt; createdAt counts minutes, the
\* clock hours. nanoid() is taken as never repeating: added items are
\* numbered from 1 by local.itemSeq and the seeds have the ids -1 to -4.

\* seedMemories(): four items, 90 minutes, 5, 24 and 48 hours old.
seedMemories(at) ==
    << [id |-> -1, type |-> "voice", title |-> <<"M", "o", "r", "n", "i", "n", "g", " ", "c", "h", "e", "c", "k", "-", "i", "n">>,
        tags |-> << <<<<"w", "o", "r", "k">>, <<"f", "o", "c", "u", "s">>>> >>, createdAt |-> at * 60 - 90],
       [id |-> -2, type |-> "text", title |-> <<"I", "d", "e", "a", ":", " ", "l", "o", "c", "a", "l", "-", "f", "i", "r", "s", "t", " ", "s", "y", "n", "c">>,
        tags |-> << <<<<"i", "d", "e", "a">>, <<"r", "e", "s", "e", "a", "r", "c", "h">>>> >>, createdAt |-> at * 60 - 300],
       [id |-> -3, type |-> "link", title |-> <<"A", "r", "t", "i", "c", "l", "e", ":", " ", "c", "o", "n", "t", "e", "x", "t", "u", "a", "l", " ", "r", "e", "m", "i", "n", "d", "e", "r", "s">>,
        tags |-> << <<<<"r", "e", "a", "d", "i", "n", "g">>>> >>, createdAt |-> at * 60 - 1440],
       [id |-> -4, type |-> "photo", title |-> <<"W", "h", "i", "t", "e", "b", "o", "a", "r", "d", " ", "s", "n", "a", "p", "s", "h", "o", "t">>,
        tags |-> << <<<<"w", "o", "r", "k", "s", "h", "o", "p">>>> >>, createdAt |-> at * 60 - 2880] >>

\* The reducer's state inside local.
StateOf(store) == [items |-> store.items, focusGoal |-> store.focusGoal]

\* Variant: set_state keeps the items dispatched before it.
reducer_KeepItems(state, action) ==
    CASE action.type = "set_state" ->
            [action.payload EXCEPT !.items = state.items \o @]
      [] action.type = "add_item" ->
            [state EXCEPT !.items = <<action.payload>> \o @]
      [] action.type = "set_focus" ->
            [state EXCEPT !.focusGoal = action.payload]
      [] OTHER -> state

\* reducer(state, action)
reducer(state, action) ==
    CASE action.type = "set_state" -> action.payload
      [] action.type = "add_item" ->
            [state EXCEPT !.items = <<action.payload>> \o @]
      [] action.type = "set_focus" ->
            [state EXCEPT !.focusGoal = action.payload]
      [] OTHER -> state

\* The persist effect, run after the state has changed: nothing is written
\* while there are no items and no focus goal; otherwise persistToDisk starts
\* a write of JSON.stringify(state), which keeps both fields as they are.
PersistEffect(state, writes) ==
    IF state.items = <<>> /\ state.focusGoal = <<>> THEN writes
    ELSE writes \cup {state}

\* dispatch(action) followed by the effects of the render it causes.
Dispatched(store, action) ==
    LET state == reducer(StateOf(store), action)
    IN  [store EXCEPT !.items = state.items,
                      !.focusGoal = state.focusGoal,
                      !.writes = PersistEffect(state, store.writes)]

\* loadFromDisk() resolves, with the parsed file or with null when there is
\* none, and set_state installs what was stored or the seeds.
load_Resolve ==
    /\ local.loading
    /\ Cardinality(local.writes) < MaxWrites
    /\ local' = LET payload == IF local.file # <<>> THEN local.file[1]
                               ELSE [items |-> seedMemories(now),
                                     focusGoal |-> <<>>]
                    store   == Dispatched(local, [type |-> "set_state", payload |-> payload])
                IN  [store EXCEPT !.loading = FALSE]
    /\ UNCHANGED <<db, prefs, memories, memSeq, goals, goalSeq, now, calls, ret, tz, capture>>

\* What QuickAddModal.handleSubmit passes on: the trimmed title, or the
\* placeholder title when it is blank and the content is not.
QuickAddTitles == { <<"P", "l", "a", "n">>, <<"U", "n", "t", "i", "t", "l", "e", "d">> }

\* HomeScreen.handleAdd(payload) for a payload without tags, and addMemory of
\* the store: the item is tagged with the focus goal, if one is set, given an
\* id and stamped, and add_item is dispatched.
handleAdd(title) ==
    /\ local.itemSeq < MaxItems
    /\ Cardinality(local.writes) < MaxWrites
    /\ local' = LET tags == IF local.focusGoal # <<>> /\ local.focusGoal[1] # <<>>
                            THEN << <<local.focusGoal[1]>> >> ELSE <<>>
                    item == [id |-> local.itemSeq + 1, type |-> "quick", title |-> title,
                             tags |-> tags, createdAt |-> now * 60]
                    store == Dispatched(local, [type |-> "add_item", payload |-> item])
                IN  [store EXCEPT !.itemSeq = @ + 1]
    /\ UNCHANGED <<db, prefs, memories, memSeq, goals, goalSeq, now, calls, ret, tz, capture>>

\* setFocusGoal(goal): HomeScreen.toggleFocus passes "focus" or null.
setFocusGoal(goal) ==
    /\ Cardinality(local.writes) < MaxWrites
    /\ local' = Dispatched(local, [type |-> "set_focus", payload |-> goal])
    /\ UNCHANGED <<db, prefs, memories, memSeq, goals, goalSeq, now, calls, ret, tz, capture>>

\* A writeAsStringAsync call in flight completes: the file holds its document.
write_Complete(doc) ==
    /\ doc \in local.writes
    /\ local' = [local EXCEPT !.file = <<doc>>, !.writes = @ \ {doc}]
    /\ UNCHANGED <<db, prefs, memories, memSeq, goals, goalSeq, now, calls, ret, tz, capture>>


\* The app is closed and opened again: the provider mounts with initialState
\* and the file as the last completed write left it; the writes that were in
\* flight are lost with the process.
remount ==
    /\ ~local.loading
    /\ local' = [UnloadedStore EXCEPT !.file = local.file, !.itemSeq = local.itemSeq]
    /\ UNCHANGED <<db, prefs, memories, memSeq, goals, goalSeq, now, calls, ret, tz, capture>>

\* sortedItems: a copy of state.items by createdAt, newest first; the sort is
\* stable, so items of one instant keep their order.
RECURSIVE sortedItems(_)
sortedItems(items) ==
    IF items = <<>> THEN <<>>
    ELSE LET first == CHOOSE i \in 1..Len(items) :
                          /\ \A j \in 1..Len(items) : items[i].createdAt >= items[j].createdAt
                          /\ \A j \in 1..(i - 1) : items[j].createdAt < items[i].createdAt
         IN  <<items[first]>> \o
             sortedItems(SubSeq(items, 1, first - 1) \o SubSeq(items, first + 1, Len(items)))

\* Variant: the title alone is searched.
filteredItems_TitleOnly(items, focusGoal) ==
    IF focusGoal = <<>> \/ focusGoal[1] = <<>> THEN items
    ELSE LET lowerGoal == toLowerCase(focusGoal[1])
         IN  SelectSeq(items, LAMBDA item : includes(toLowerCase(item.title), lowerGoal))

\* HomeScreen.filteredItems: all the items while focusGoal is null or empty,
\* otherwise those whose title or one of whose tags holds the goal, in
\* lower case.
filteredItems(items, focusGoal) ==
    IF focusGoal = <<>> \/ focusGoal[1] = <<>> THEN items
    ELSE LET lowerGoal == toLowerCase(focusGoal[1])
         IN  SelectSeq(items, LAMBDA item :
                 \/ includes(toLowerCase(item.title), lowerGoal)
                 \/ /\ item.tags # <<>>
                    /\ \E k \in 1..Len(item.tags[1]) :
                           includes(toLowerCase(item.tags[1][k]), lowerGoal))


\* ------------------------------------------------------ captured contents
\* What the four capture screens pass to addMemory as content. Strings are
\* tuples of characters. The screens are taken with no location found.

\* s.startsWith(p)
startsWith(s, p) == Len(s) >= Len(p) /\ SubSeq(s, 1, Len(p)) = p

\* s.replace(p, r) for a string p: the first occurrence is replaced.
replace(s, p, r) ==
    LET at == { i \in 1..(Len(s) - Len(p) + 1) : SubSeq(s, i, i + Len(p) - 1) = p }
    IN  IF at = {} THEN s
        ELSE LET i == CHOOSE i \in at : \A j \in at : i <= j
             IN  SubSeq(s, 1, i - 1) \o r \o SubSeq(s, i + Len(p), Len(s))

\* new URL(s).hostname for the URLs typed here: <<>> when the constructor
\* throws, else <<host>>. Leading and trailing spaces of s are dropped, the
\* scheme is http or https, the host runs up to the first "/", and a host
\* that is empty or holds a space is refused.
hostname(s) ==
    LET t    == trim(s)
        rest == IF startsWith(t, <<"h", "t", "t", "p", "s", ":", "/", "/">>) THEN <<SubSeq(t, 9, Len(t))>>
                ELSE IF startsWith(t, <<"h", "t", "t", "p", ":", "/", "/">>) THEN <<SubSeq(t, 8, Len(t))>>
                ELSE <<>>
    IN  IF rest = <<>> THEN <<>>
        ELSE LET slashes == { i \in 1..Len(rest[1]) : rest[1][i] = "/" }
                 host    == IF slashes = {} THEN rest[1]
                            ELSE SubSeq(rest[1], 1, (CHOOSE i \in slashes : \A j \in slashes : i <= j) - 1)
             IN  IF host = <<>> \/ \E i \in 1..Len(host) : IsSpace(host[i]) THEN <<>>
                 ELSE <<host>>

\* url.startsWith("http") ? url : `https://${url}`
WithScheme(url) == IF startsWith(url, <<"h", "t", "t", "p">>) THEN url ELSE <<"h", "t", "t", "p", "s", ":", "/", "/">> \o url

\* isValidUrl(string)
isValidUrl(string) == hostname(WithScheme(string)) # <<>>

\* extractDomain(url): the hostname without its first "www.", or "" when the
\* URL does not parse.
extractDomain(url) ==
    IF hostname(WithScheme(url)) = <<>> THEN <<>>
    ELSE replace(hostname(WithScheme(url))[1], <<"w", "w", "w", ".">>, <<>>)

\* LinkInputScreen.handleSave: title.trim() || extractDomain(fullUrl), where
\* fullUrl is made of url as typed.
LinkContent(url, title) ==
    IF trim(title) # <<>> THEN trim(title) ELSE extractDomain(WithScheme(url))

\* formatTime(seconds): mm:ss
Digit(n) == <<"0", "1", "2", "3", "4", "5", "6", "7", "8", "9">>[n + 1]
padStart2(n) == IF n < 10 THEN <<"0", Digit(n)>> ELSE <<Digit(n \div 10), Digit(n % 10)>>
formatTime(seconds) == padStart2(seconds \div 60) \o <<":">> \o padStart2(seconds % 60)

\* What is typed into the screens, and the lengths of the recordings.
TextInputs == { <<" ", "h", "i", " ">>, <<" ", " ">>, <<>> }
CaptionInputs == { <<>>, <<" ">>, <<"m", "e">> }
RecordingTimes == { 0, 75 }
UrlInputs == { <<"a", ".", "i", "o">>, <<" ", "a", ".", "i", "o">>, <<"a", ".", "i", "o", " ">>, <<"w", "w", "w", ".">>, <<"w", "w", "w", ".", "a", ".", "i", "o">>, <<"h", "t", "t", "p", ":", "/", "/", "a", ".", "i", "o", "/", "x">>, <<"a", " ", "b">>, <<>> }
TitleInputs == { <<>>, <<" ", "T", " ">> }

\* TextInputScreen.handleSave: a blank text is refused.
handleSave_Text(text) ==
    /\ trim(text) # <<>>
    /\ addMemory([content |-> trim(text), contentType |-> "text", createdAt |-> now,
                  audioUri |-> NULL, imageUri |-> NULL])

\* PhotoInputScreen.handleSave, a photo having been picked.
handleSave_Photo(caption) ==
    addMemory([content |-> IF trim(caption) # <<>> THEN trim(caption) ELSE <<"P", "h", "o", "t", "o">>,
               contentType |-> "photo", createdAt |-> now,
               audioUri |-> NULL, imageUri |-> "file"])

\* VoiceInputScreen.handleSave, a recording having been made.
handleSave_Voice(recordingTime) ==
    addMemory([content |-> <<"V", "o", "i", "c", "e", " ", "n", "o", "t", "e", " ", "-", " ">> \o formatTime(recordingTime),
               contentType |-> "voice", createdAt |-> now,
               audioUri |-> "file", imageUri |-> NULL])

\* LinkInputScreen.handleSave: a blank URL and one that isValidUrl refuses
\* once trimmed are turned down.
handleSave_Link(url, title) ==
    /\ trim(url) # <<>>
    /\ isValidUrl(trim(url))
    /\ addMemory([content |-> LinkContent(url, title), contentType |-> "link",
                  createdAt |-> now, audioUri |-> NULL, imageUri |-> NULL,
                  linkUrl |-> WithScheme(url)])

\* ---------------------------------------------------------------- system
Init ==
    /\ db = "null"
    /\ memories = <<>>
    /\ memSeq = 0
    /\ goals = <<>>
    /\ goalSeq = 0
    /\ now = 0
    /\ calls = [s \in Slots |-> [pc |-> "idle", id |-> <<>>]]
    /\ ret = [op |-> "none", arg |-> <<>>, status |-> "ok", value |-> <<>>, again |-> FALSE]
    /\ prefs = <<>>
    /\ tz = 0
    /\ capture = ClosedCapture
    /\ local = UnloadedStore

\* The tables are independent: no operation on memories reads or writes
\* focus_goals and conversely, so each group of operations is explored in a
\* specification of its own.

\* Create, read, update and delete on the memories table.
Next ==
    \/ initDatabase
    \/ \E memory \in MemoryInputs : addMemory(memory)
    \/ \E id \in MemoryIds, updates \in MemoryUpdates : updateMemory(id, updates)
    \/ \E id \in MemoryIds : deleteMemory(id)

Spec == Init /\ [][Next]_vars

\* Viewing: notes saved from the text screen are opened (MemoryDetailScreen
\* calls incrementViewCount), edited and deleted while time passes.
ViewNext ==
    \/ Tick
    \/ addMemory(TextNote(now))
    \/ \E id \in MemoryIds : incrementViewCount(id)
    \/ \E id \in MemoryIds, updates \in MemoryUpdates : updateMemory(id, updates)
    \/ \E id \in MemoryIds : deleteMemory(id)

ViewSpec == Init /\ [][ViewNext]_vars

\* Focus goals, each call run to completion before the next one starts
\* (the screens await every call).
GoalSeqNext ==
    \/ AllIdle /\ \E name \in GoalNames : addFocusGoal(name)
    \/ AllIdle /\ \E id \in GoalIds : deleteFocusGoal(id)
    \/ AllIdle /\ readFocusGoals
    \/ AllIdle /\ \E s \in Slots, id \in GoalArgs : setActive_Deactivate(s, id)
    \/ AllIdle /\ \E s \in Slots, id \in GoalArgs : setActive_DeactivateFails(s, id)
    \/ \E s \in Slots : setActive_Activate(s)
    \/ \E s \in Slots : setActive_ActivateFails(s)

GoalSeqSpec == Init /\ [][GoalSeqNext]_vars

\* Focus goals with calls started while others are suspended at an await:
\* FocusModeScreen.handleSelectGoal runs once per press, and nothing keeps a
\* second press from starting a call before the first call has returned.
GoalNext ==
    \/ \E name \in GoalNames : addFocusGoal(name)
    \/ \E id \in GoalIds : deleteFocusGoal(id)
    \/ readFocusGoals
    \/ \E s \in Slots, id \in GoalArgs : setActive_Deactivate(s, id)
    \/ \E s \in Slots : setActive_Activate(s)

GoalSpec == Init /\ [][GoalNext]_vars

\* The profile: preferences are read and updated while notes and goals are
\* being added.
PrefNext ==
    \/ initDatabase
    \/ getUserPreferences
    \/ \E updates \in PreferenceUpdates : updateUserPreferences(updates)
    \/ addMemory(TextNote(now))
    \/ \E name \in GoalNames : addFocusGoal(name)

PrefSpec == Init /\ [][PrefNext]_vars

\* Frequently viewed: up to MaxRows notes have been saved and none viewed
\* yet; they are then opened, and the frequently viewed ones are read.
FrequentInit ==
    /\ db = "open"
    /\ prefs = InsertOrIgnorePreferences(<<>>)
    /\ memSeq \in 0..MaxRows
    /\ memories = [i \in 1..memSeq |-> InsertMemoryRow(i, TextNote(0))]
    /\ goals = <<>>
    /\ goalSeq = 0
    /\ now = 0
    /\ calls = [s \in Slots |-> [pc |-> "idle", id |-> <<>>]]
    /\ ret = [op |-> "none", arg |-> <<>>, status |-> "ok", value |-> <<>>, again |-> FALSE]
    /\ tz = 0
    /\ capture = ClosedCapture
    /\ local = UnloadedStore

FrequentNext ==
    \/ \E id \in 1..MaxRows : id \in DOMAIN memories /\ incrementViewCount(id)
    \/ readFrequentlyViewed

FrequentSpec == FrequentInit /\ [][FrequentNext]_vars

\* Dates: up to MaxDateRows notes were saved at instants that do not
\* decrease with the id (each is stamped as it is saved); either none has been
\* viewed, or all but the first have. The device is at some offset from UTC,
\* at an instant not before the last save, and the screens load.
DateStamps ==
    UNION { { s \in [1..n -> Instants] : \A i, j \in 1..n : i < j => s[i] <= s[j] } :
            n \in 0..MaxDateRows }

DateRow(id, at, viewed) ==
    [InsertMemoryRow(id, TextNote(at)) EXCEPT
        !.viewCount = IF viewed THEN id - 1 ELSE 0,
        !.lastViewedAt = IF viewed /\ id > 1 THEN <<at>> ELSE <<>>]

DateInit ==
    /\ db = "open"
    /\ prefs = InsertOrIgnorePreferences(<<>>)
    /\ \E stamps \in DateStamps, viewed \in BOOLEAN :
          /\ viewed => Len(stamps) > 1
          /\ memories = [i \in DOMAIN stamps |-> DateRow(i, stamps[i], viewed)]
          /\ memSeq = Len(stamps)
    /\ goals = <<>>
    /\ goalSeq = 0
    /\ now \in Instants
    /\ \A i \in DOMAIN memories : memories[i].createdAt <= now
    /\ calls = [s \in Slots |-> [pc |-> "idle", id |-> <<>>]]
    /\ ret = [op |-> "none", arg |-> <<>>, status |-> "ok", value |-> <<>>, again |-> FALSE]
    /\ tz \in Offsets
    /\ capture = ClosedCapture
    /\ local = UnloadedStore

DateNext ==
    \/ readTodayMemoryCount
    \/ loadSuggestions
    \/ loadMemories

DateSpec == DateInit /\ [][DateNext]_vars

\* Focus mode as the screens drive it: goals are created through
\* handleCreateGoal, notes are stored, and a goal's memories are shown.
FocusNext ==
    \/ \E memory \in FocusNotes : addMemory(memory)
    \/ \E input \in GoalInputs : handleCreateGoal(input)
    \/ \E id \in GoalIds : showGoalMemories(id)

FocusSpec == Init /\ [][FocusNext]_vars

\* Focus mode over the store as any caller may fill it: addFocusGoal is given
\* names as they are.
FocusStoreNext ==
    \/ \E memory \in FocusNotes : addMemory(memory)
    \/ \E name \in UntrimmedGoalNames : addFocusGoal(name)
    \/ \E id \in GoalIds : showGoalMemories(id)

FocusStoreSpec == Init /\ [][FocusStoreNext]_vars

\* Records of several types are stored and then updated in the fields that
\* describe their capture.
FieldNext ==
    \/ \E memory \in FieldInputs : addMemory(memory)
    \/ \E id \in MemoryIds, updates \in FieldUpdates : updateMemory(id, updates)

FieldSpec == Init /\ [][FieldNext]_vars

\* Opening the store: initDatabase calls overlap each other and the calls
\* that store data, and the application is restarted.
OpenNext ==
    \/ \E s \in Slots : init_Start(s)
    \/ \E s \in Slots : init_Opened(s)
    \/ \E s \in Slots : init_Executed(s)
    \/ restart
    \/ StoreReady /\ addMemory(TextNote(now))
    \/ addMemory_NoTable
    \/ StoreReady /\ \E name \in GoalNames : addFocusGoal(name)
    \/ StoreReady /\ updateUserPreferences([avatarIndex |-> 1])

OpenSpec == Init /\ [][OpenNext]_vars

\* Capture with location: the preference is toggled on the profile tab, a
\* capture screen is opened, looks the location up and saves. The update of a
\* toggle is not awaited by anything the capture screen does, so it may take
\* effect at any time, also while the screen is open.
CaptureNext ==
    \/ handleLocationToggle
    \/ openCapture
    \/ getLocation_Preferences
    \/ \E status \in {"granted", "denied"} : getLocation_Permission(status)
    \/ \E found \in BOOLEAN : getLocation_Position(found)
    \/ handleSave
    \/ closeCapture

CaptureSpec == Init /\ [][CaptureNext]_vars

\* The goals the screens pass to setFocusGoal: null, "focus" of the Home
\* screen's toggle, and the first goal of the Discover screen, written here
\* in Latin letters.
LocalFocusGoals == { <<>>, <<<<"f", "o", "c", "u", "s">>>>, <<<<"a", "m", "l">>>> }

\* The process-local store: the load, quick adds from the Home screen, the
\* focus goal being set and cleared, the file writes completing in any order,
\* and the app being reopened.
LocalNext ==
    \/ load_Resolve
    \/ \E title \in QuickAddTitles : handleAdd(title)
    \/ \E goal \in LocalFocusGoals : setFocusGoal(goal)
    \/ \E doc \in local.writes : write_Complete(doc)
    \/ remount

LocalSpec == Init /\ [][LocalNext]_vars

\* The four capture screens saving what was typed or recorded.
ContentNext ==
    \/ \E text \in TextInputs : handleSave_Text(text)
    \/ \E caption \in CaptionInputs : handleSave_Photo(caption)
    \/ \E recordingTime \in RecordingTimes : handleSave_Voice(recordingTime)
    \/ \E url \in UrlInputs, title \in TitleInputs : handleSave_Link(url, title)

ContentSpec == Init /\ [][ContentNext]_vars

\* ================================================================ claims
Range(seq) == { seq[i] : i \in 1..Len(seq) }

\* An input addMemory's contract calls valid: some content, or a media
\* reference.
ValidInput(memory) ==
    \/ memory.content # ""
    \/ memory.audioUri # NULL
    \/ memory.imageUri # NULL

\* C1: for every valid input, addMemory followed by getAllMemories returns a
\* sequence with exactly one record that was not there before, that record has
\* viewCount 0 and the submitted content and contentType, and every record
\* present before is still present and unchanged.
C1_AddThenGetAll ==
    [][\A memory \in MemoryInputs :
         (ValidInput(memory) /\ addMemory(memory)) =>
            LET before == getAllMemories(memories)
                after  == getAllMemories(memories')
                fresh  == Range(after) \ Range(before)
            IN  /\ Len(after) = Len(before) + 1
                /\ Cardinality(fresh) = 1
                /\ \A r \in fresh :
                      /\ r.viewCount = 0
                      /\ r.content = memory.content
                      /\ r.contentType = memory.contentType
                      /\ r.id \notin { q.id : q \in Range(before) }
                /\ Range(before) \subseteq Range(after)]_vars

\* C1 witness: an addMemory has just returned the id of a row with viewCount 0
\* that getAllMemories lists next to an older row.
C1_Witness ==
    /\ ret.op = "addMemory"
    /\ ret.value = <<memSeq>>
    /\ memSeq \in DOMAIN memories
    /\ memories[memSeq].viewCount = 0
    /\ Len(getAllMemories(memories)) = 2
    /\ \E i \in DOMAIN memories : i < memSeq /\ memories[i].content = "note"

\* C2: with every call run to completion before the next starts, at most one
\* focus goal has isActive set whenever no call is running.
C2_SingleActiveGoal ==
    AllIdle => Cardinality(ActiveGoals(goals)) <= 1

\* C2 witness: two goals are stored and setActiveFocusGoal(1) has returned,
\* leaving goal 1 the active one.
C2_Witness ==
    /\ AllIdle
    /\ DOMAIN goals = {1, 2}
    /\ ret.op = "setActiveFocusGoal" /\ ret.status = "ok" /\ ret.arg = <<1>>
    /\ ActiveGoals(goals) = {1}

\* setActiveFocusGoal(id) with a number id has just returned normally.
JustActivated ==
    /\ AllIdle
    /\ ret.op = "setActiveFocusGoal"
    /\ ret.status = "ok"
    /\ ret.arg # <<>>

\* C3 as stated: setActiveFocusGoal(id) followed by getFocusGoals() yields
\* exactly one goal with isActive set, and it is the goal with the id passed.
C3_ExactlyOneActiveMatchingId ==
    JustActivated =>
        LET rows == getFocusGoals(goals)
        IN  /\ Cardinality(ActiveRows(rows)) = 1
            /\ \A i \in ActiveRows(rows) : rows[i].id = ret.arg[1]

\* C3 amended: when id is the id of a stored goal, setActiveFocusGoal(id)
\* followed by getFocusGoals() yields exactly one goal with isActive set, the
\* goal with that id; when no stored goal has the id, it yields none.
C3_ExactlyOneActiveWhenStored ==
    JustActivated =>
        LET rows == getFocusGoals(goals)
        IN  IF ret.arg[1] \in DOMAIN goals
            THEN /\ Cardinality(ActiveRows(rows)) = 1
                 /\ \A i \in ActiveRows(rows) : rows[i].id = ret.arg[1]
            ELSE ActiveRows(rows) = {}

\* C3 witness: setActiveFocusGoal(2) has returned with goals 1 and 2 stored
\* and goal 2 the one getFocusGoals reports active.
C3_Witness ==
    /\ JustActivated
    /\ ret.arg = <<2>>
    /\ DOMAIN goals = {1, 2}
    /\ goals[2].isActive = 1 /\ goals[1].isActive = 0

\* C4: no read of the focus goals, also while setActiveFocusGoal calls are
\* in progress and interleave, returns two goals with isActive set.
C4_ReadersNeverSeeTwoActive ==
    ret.op = "getFocusGoals" => Cardinality(ActiveRows(ret.value)) <= 1

\* C5: when setActiveFocusGoal fails after its deactivation write, the store
\* is left with no active goal (calls invoked one after another).
C5_FailureLeavesNoActiveGoal ==
    ( /\ AllIdle
      /\ ret.op = "setActiveFocusGoal"
      /\ ret.status = "StorageError"
      /\ ret.value = <<ActivateStatement>> )
    => ActiveGoals(goals) = {}

\* C5 witness: with two goals stored, setActiveFocusGoal(2) has thrown at its
\* second statement.
C5_Witness ==
    /\ AllIdle
    /\ ret.op = "setActiveFocusGoal"
    /\ ret.status = "StorageError"
    /\ ret.value = <<ActivateStatement>>
    /\ ret.arg = <<2>>
    /\ DOMAIN goals = {1, 2}

\* C6: every incrementViewCount(id) on a stored record adds exactly one to its
\* viewCount and sets its lastViewedAt to the timestamp of that call, and
\* changes no other record; so N calls add N and leave the last call's
\* timestamp.
C6_IncrementAddsOne ==
    [][\A id \in MemoryIds :
         (id \in DOMAIN memories /\ incrementViewCount(id)) =>
            /\ DOMAIN memories' = DOMAIN memories
            /\ memories'[id].viewCount = memories[id].viewCount + 1
            /\ memories'[id].lastViewedAt = <<now>>
            /\ \A f \in DOMAIN memories[id] \ {"viewCount", "lastViewedAt"} :
                  memories'[id][f] = memories[id][f]
            /\ \A other \in DOMAIN memories \ {id} :
                  memories'[other] = memories[other]]_vars

\* C6 witness: the second of two incrementViewCount(1) calls has returned at
\* time 1; record 1 counts 2 views, the last at 1, and record 2 is unviewed.
C6_Witness ==
    /\ ret.op = "incrementViewCount" /\ ret.arg = <<1>> /\ ret.again
    /\ now = 1
    /\ DOMAIN memories = {1, 2}
    /\ memories[1].viewCount = 2 /\ memories[1].lastViewedAt = <<1>>
    /\ memories[2].viewCount = 0 /\ memories[2].lastViewedAt = <<>>

\* C7: under addMemory, updateMemory with any partial fields,
\* incrementViewCount and deleteMemory, no record's viewCount is ever smaller
\* than it was.
C7_ViewCountNeverDecreases ==
    [][\A id \in DOMAIN memories \cap DOMAIN memories' :
         memories'[id].viewCount >= memories[id].viewCount]_vars

\* C8: deleteMemory(id) raises no error, removes the record with that id and
\* no other, and on an id that is absent (a second call, or an id never given)
\* leaves the stored records exactly as they were.
C8_DeleteIdempotent ==
    [][\A id \in MemoryIds :
         deleteMemory(id) =>
            /\ ret'.status = "ok"
            /\ DOMAIN memories' = DOMAIN memories \ {id}
            /\ \A i \in DOMAIN memories' : memories'[i] = memories[i]
            /\ (id \notin DOMAIN memories => memories' = memories)]_vars

\* C8 witness: deleteMemory(1) has returned for the second time in a row, and
\* record 2 is still stored.
C8_Witness ==
    /\ ret.op = "deleteMemory" /\ ret.arg = <<1>> /\ ret.again
    /\ ret.status = "ok"
    /\ memSeq = 2
    /\ DOMAIN memories = {2}

\* C9: addMemory with empty content and no media reference fails with
\* ValidationError and stores no record.
C9_EmptyAddRejected ==
    [][\A memory \in MemoryInputs :
         (~ValidInput(memory) /\ addMemory(memory)) =>
            /\ ret'.status = "ValidationError"
            /\ memories' = memories]_vars

\* C10: updateMemory(id, partialFields) with non-empty partialFields and no
\* record with that id fails with NotFoundError and leaves the store unchanged.
C10_UpdateAbsentFails ==
    [][\A id \in MemoryIds, updates \in MemoryUpdates :
         (UpdateFields(updates) # {} /\ id \notin DOMAIN memories
            /\ updateMemory(id, updates)) =>
            /\ ret'.status = "NotFoundError"
            /\ memories' = memories]_vars

\* C11: updateMemory(id, partialFields) with empty partialFields leaves every
\* record unchanged; with non-empty partialFields only the record with that
\* id changes, only in the named fields, and its id is never changed.
C11_UpdateFrame ==
    [][\A id \in MemoryIds, updates \in MemoryUpdates :
         updateMemory(id, updates) =>
            /\ DOMAIN updates = {} => memories' = memories
            /\ DOMAIN memories' = DOMAIN memories
            /\ \A other \in DOMAIN memories \ {id} :
                  memories'[other] = memories[other]
            /\ id \in DOMAIN memories =>
                  /\ memories'[id].id = id
                  /\ \A f \in DOMAIN memories[id] \ DOMAIN updates :
                        memories'[id][f] = memories[id][f]]_vars

\* C11 witness: updateMemory(2, ...) has returned and gave the photo stored as
\* record 2 with empty content the content "note", next to record 1, whose
\* content is still empty.
C11_Witness ==
    /\ ret.op = "updateMemory" /\ ret.arg = <<2>>
    /\ DOMAIN memories = {1, 2}
    /\ memories[2].contentType = "photo" /\ memories[2].content = "note"
    /\ memories[2].id = 2
    /\ memories[1].content = ""

\* C12: getAllMemories returns every stored record, most recent createdAt
\* first; getMemoriesByType, getMemoriesByDateRange and getRecentMemories
\* return exactly the subsequence of that ordering selected by the type, by
\* start <= createdAt <= end, and by the first limit records.
C12_QueriesSelectFromAll ==
    LET all == getAllMemories(memories)
    IN  /\ Len(all) = Cardinality(DOMAIN memories)
        /\ Range(all) = Rows(memories)
        /\ \A i, j \in 1..Len(all) : i < j => all[i].createdAt >= all[j].createdAt
        /\ \A type \in ContentTypes :
              getMemoriesByType(memories, type)
                 = SelectSeq(all, LAMBDA r : r.contentType = type)
        /\ \A startDate, endDate \in Times :
              getMemoriesByDateRange(memories, startDate, endDate)
                 = SelectSeq(all, LAMBDA r : /\ startDate <= r.createdAt
                                             /\ r.createdAt <= endDate)
        /\ \A limit \in Limits :
              getRecentMemories(memories, limit)
                 = SubSeq(all, 1, IF limit < Len(all) THEN limit ELSE Len(all))

\* C12 witness: an older text note and a newer photo are stored; the ordering
\* puts the photo first, the type filter and the limit 1 each drop one record,
\* and the range ending at the older instant keeps only the note.
C12_Witness ==
    /\ DOMAIN memories = {1, 2}
    /\ memories[1].contentType = "text" /\ memories[1].createdAt = 0
    /\ memories[2].contentType = "photo" /\ memories[2].createdAt = 1
    /\ getAllMemories(memories) = <<memories[2], memories[1]>>
    /\ getMemoriesByType(memories, "text") = <<memories[1]>>
    /\ getRecentMemories(memories, 1) = <<memories[2]>>
    /\ getMemoriesByDateRange(memories, 0, 0) = <<memories[1]>>

\* C13: once the store is initialised there is exactly one user-preferences
\* record, whatever sequence of initDatabase, getUserPreferences and
\* updateUserPreferences has run.
C13_OnePreferencesRecord ==
    db = "open" => DOMAIN prefs = {1} /\ prefs[1].id = 1

\* C13 witness: after updates (one of them naming id 2) and a repeated
\* getUserPreferences the single record carries the updated avatar.
C13_Witness ==
    /\ db = "open"
    /\ ret.op = "getUserPreferences" /\ ret.again
    /\ DOMAIN prefs = {1}
    /\ prefs[1].avatarIndex = 2

\* C14: getUserPreferences returns the singleton preferences record; when no
\* record exists yet the call creates it with the defaults (displayName
\* "User", avatarIndex 0, themeMode "auto", locationEnabled false), so an
\* updateUserPreferences that follows applies to it and a getUserPreferences
\* after that returns the updated values.
C14_GetReturnsSingleton ==
    [][/\ getUserPreferences =>
             /\ DOMAIN prefs' = {1}
             /\ ret'.value = prefs'[1]
             /\ DOMAIN prefs = {} =>
                   /\ ret'.value.id = 1
                   /\ ret'.value.displayName = "User"
                   /\ ret'.value.avatarIndex = 0
                   /\ ret'.value.themeMode = "auto"
                   /\ ~Truthy(ret'.value.locationEnabled)
       /\ \A updates \in PreferenceUpdates :
             updateUserPreferences(updates) /\ ret.op = "getUserPreferences" =>
                /\ DOMAIN prefs' = {1}
                /\ \A f \in UpdateFields(updates) :
                      prefs'[1][f] = BoundValue(f, updates[f])]_vars

\* C14 witness: before anything else was stored, getUserPreferences has
\* returned a record on which updates had set avatarIndex and locationEnabled
\* and left the other fields at their defaults.
C14_Witness ==
    /\ ret.op = "getUserPreferences"
    /\ memSeq = 0 /\ goalSeq = 0
    /\ ret.value.avatarIndex = 1
    /\ Truthy(ret.value.locationEnabled)
    /\ ret.value.themeMode = "auto" /\ ret.value.displayName = "User"

\* C15: updateUserPreferences merges: every named field other than id takes
\* the given value, every unnamed field keeps its previous value, and the
\* memory records and focus goals are unchanged.
C15_UpdateMerges ==
    [][\A updates \in PreferenceUpdates :
         updateUserPreferences(updates) =>
            /\ memories' = memories
            /\ goals' = goals
            /\ DOMAIN prefs' = {1}
            /\ \A f \in UpdateFields(updates) :
                  IF f \in BooleanFields
                  THEN Truthy(prefs'[1][f]) = updates[f]
                  ELSE prefs'[1][f] = updates[f]
            /\ DOMAIN prefs = {1} =>
                  /\ prefs'[1].id = prefs[1].id
                  /\ \A f \in DOMAIN prefs[1] \ DOMAIN updates :
                        prefs'[1][f] = prefs[1][f]]_vars

\* C15 witness: with a note and a goal stored, updateUserPreferences has
\* returned and the record holds the values of three separate updates.
C15_Witness ==
    /\ ret.op = "updateUserPreferences"
    /\ memSeq = 1 /\ goalSeq = 1
    /\ DOMAIN prefs = {1}
    /\ prefs[1].themeMode = "dark" /\ prefs[1].displayName = "Sam"
    /\ prefs[1].avatarIndex = 2
    /\ Truthy(prefs[1].locationEnabled)

\* C18: getFrequentlyViewedMemories returns only records with viewCount > 0,
\* ordered by viewCount descending, at most 5 of them, and no record with
\* viewCount > 0 is left out while a record with a strictly smaller viewCount
\* is returned.
C18_FrequentlyViewed ==
    ret.op = "getFrequentlyViewedMemories" =>
        LET result == ret.value
            viewed == { r \in Rows(memories) : r.viewCount > 0 }
        IN  /\ Range(result) \subseteq viewed
            /\ Len(result) <= 5
            /\ Cardinality(Range(result)) = Len(result)
            /\ \A i, j \in 1..Len(result) :
                  i < j => result[i].viewCount >= result[j].viewCount
            /\ \A q \in viewed \ Range(result) :
                  /\ Len(result) = 5
                  /\ \A r \in Range(result) : r.viewCount >= q.viewCount

\* C18 witness: six notes are stored, all of them viewed, one only once and
\* the others twice; the call returned the five viewed twice.
C18_Witness ==
    /\ ret.op = "getFrequentlyViewedMemories"
    /\ memSeq = 6
    /\ \A i \in DOMAIN memories : memories[i].viewCount > 0
    /\ memories[1].viewCount = 1
    /\ Len(ret.value) = 5
    /\ \A i \in 1..Len(ret.value) : ret.value[i].viewCount = 2

\* C16: getTodayMemoryCount returns the number of stored records whose
\* createdAt falls on the current calendar date of the device, for every
\* timezone offset of the device.
C16_TodayCountByLocalDate ==
    ret.op = "getTodayMemoryCount" =>
        ret.value = <<Cardinality({ r \in Rows(memories) :
                          LocalDate(r.createdAt, tz) = LocalDate(now, tz) })>>

\* C17: the suggestions are chosen by the hour on the device: before 12 the
\* records dated yesterday, most recent first, at most 5; from 12 to before 17
\* the 5 most recent records; from 17 on the records with viewCount > 0 by
\* viewCount descending; an empty first or third choice is replaced by the 5
\* most recent records; never more than 5 records.
C17_SuggestionsByLocalHour ==
    ret.op = "loadSuggestions" =>
        LET hour     == LocalHour(now, tz)
            recent   == getRecentMemories(memories, 5)
            dated    == { r \in Rows(memories) :
                            LocalDate(r.createdAt, tz) = LocalDate(now, tz) - 1 }
            choice   == IF hour < 12 THEN Limit(OrderByCreatedAtDesc(dated), 5)
                        ELSE IF hour < 17 THEN recent
                        ELSE getFrequentlyViewedMemories(memories)
        IN  /\ ret.value = IF choice = <<>> THEN recent ELSE choice
            /\ Len(ret.value) <= 5

\* C19: the timeline groups partition the records by the calendar date of
\* createdAt: every record is in exactly one group, there are as many groups
\* as distinct dates, the groups run from the most recent date to the oldest,
\* and the records of a group keep the order they had in the list.
C19_GroupsPartitionByDate ==
    ret.op = "loadMemories" =>
        LET groups == ret.value
            list   == getAllMemories(memories)
        IN  /\ \A r \in Rows(memories) :
                  Cardinality({ g \in 1..Len(groups) :
                                  r \in Range(groups[g].data) }) = 1
            /\ \A g \in 1..Len(groups) :
                  /\ groups[g].data # <<>>
                  /\ Range(groups[g].data) \subseteq Rows(memories)
                  /\ \A r \in Range(groups[g].data) :
                        UtcDate(r.createdAt) = groups[g].date
                  /\ groups[g].data
                        = SelectSeq(list, LAMBDA m : m \in Range(groups[g].data))
            /\ Len(groups) = Cardinality({ UtcDate(r.createdAt) : r \in Rows(memories) })
            /\ \A g, h \in 1..Len(groups) : g < h => groups[g].date > groups[h].date

\* C19 witness: three notes saved on three different dates have been loaded
\* into three groups.
C19_Witness ==
    /\ ret.op = "loadMemories"
    /\ memSeq = 3
    /\ Cardinality({ UtcDate(memories[i].createdAt) : i \in DOMAIN memories }) = 3
    /\ Len(ret.value) = 3
    /\ \A g \in 1..Len(ret.value) : Len(ret.value[g].data) = 1

\* C20: a group is labelled "Today" exactly when its date is the current date
\* on the device, "Yesterday" exactly when it is the day before that, and with
\* the written-out date otherwise, for every timezone offset and instant.
C20_LabelsByLocalDate ==
    ret.op = "loadMemories" =>
        \A g \in 1..Len(ret.value) :
            LET group == ret.value[g]
            IN  /\ group.formattedDate.label \in {"Today", "Yesterday", "formatted"}
                /\ group.formattedDate.label = "Today"
                      <=> group.date = LocalDate(now, tz)
                /\ group.formattedDate.label = "Yesterday"
                      <=> group.date = LocalDate(now, tz) - 1

\* The non-empty whitespace-delimited words of a text.
Words(s) ==
    { SubSeq(s, p[1], p[2]) :
        p \in { q \in (1..Len(s)) \X (1..Len(s)) :
                  /\ q[1] <= q[2]
                  /\ \A i \in q[1]..q[2] : ~IsSpace(s[i])
                  /\ q[1] = 1 \/ IsSpace(s[q[1] - 1])
                  /\ q[2] = Len(s) \/ IsSpace(s[q[2] + 1]) } }

\* A record matches a goal name: some word of the lowercased name occurs in
\* the lowercased content or in the lowercased focusTags.
MatchesGoal(memory, goalName) ==
    \E w \in Words(toLowerCase(goalName)) :
        \/ includes(toLowerCase(memory.content), w)
        \/ memory.focusTags # <<>> /\ includes(toLowerCase(memory.focusTags[1]), w)

\* C21: focus filtering returns exactly the records for which some
\* whitespace-delimited keyword of the lowercased goal name is a substring of
\* the lowercased content or of the lowercased focusTags, in store order, and
\* it does not modify the store.
C21_FocusFilter ==
    [][\A id \in GoalIds :
         showGoalMemories(id) =>
            /\ ret'.value = SelectSeq(getAllMemories(memories),
                                      LAMBDA m : MatchesGoal(m, goals[id].name))
            /\ memories' = memories
            /\ goals' = goals]_vars

\* C21 witness: with the goal "Work  Travel" stored from an input with
\* surrounding spaces, the filter has returned the note tagged "Travel-plans"
\* and left out the note "personal".
C21_Witness ==
    /\ ret.op = "filterMemories" /\ ret.arg = <<1>>
    /\ DOMAIN goals = {1}
    /\ goals[1].name = <<"W", "o", "r", "k", " ", " ", "T", "r", "a", "v", "e", "l">>
    /\ DOMAIN memories = {1, 2}
    /\ memories[1].content = <<"p", "e", "r", "s", "o", "n", "a", "l">>
    /\ memories[2].focusTags = <<<<"T", "r", "a", "v", "e", "l", "-", "p", "l", "a", "n", "s">>>>
    /\ ret.value = <<memories[2]>>

\* C28: for every goal name addFocusGoal stores, the empty name and names
\* with leading or trailing whitespace included, the focus filter leaves out
\* every record whose content and focusTags contain none of the name's
\* non-empty whitespace-delimited words.
C28_FilterExcludesUnrelated ==
    ret.op = "filterMemories" =>
        \A r \in Rows(memories) :
            ~MatchesGoal(r, goals[ret.arg[1]].name) => r \notin Range(ret.value)

\* C22: createdAt and contentType of a record are fixed at creation: in every
\* later state they equal the values given to addMemory.
C22_CreatedAtAndTypeFixed ==
    [][\A id \in DOMAIN memories \cap DOMAIN memories' :
         /\ memories'[id].createdAt = memories[id].createdAt
         /\ memories'[id].contentType = memories[id].contentType]_vars

\* The type-specific field groups a record has populated.
PopulatedGroups(r) ==
    (IF r.audioUri # NULL THEN {"audio"} ELSE {})
       \cup (IF r.imageUri # NULL THEN {"image"} ELSE {})
       \cup (IF r.linkUrl # <<>> THEN {"link"} ELSE {})

\* The field group that goes with a contentType; a text record has none.
GroupsOfType(type) ==
    CASE type = "voice" -> {"audio"}
      [] type \in {"photo", "screenshot"} -> {"image"}
      [] type = "link" -> {"link"}
      [] OTHER -> {}

\* C23: in every reachable state every stored record has the type-specific
\* field group of its contentType populated and no other: audioUri only for
\* voice, imageUri only for photo and screenshot, the link fields only for
\* link.
C23_FieldGroupMatchesType ==
    \A id \in DOMAIN memories :
        PopulatedGroups(memories[id]) = GroupsOfType(memories[id].contentType)

\* C24: an operation invoked while the handle is unopened first runs the
\* open/initialise step, and that step is idempotent: initDatabase, run any
\* number of times and also as two overlapping calls, leaves the stored
\* memories, the focus goals and the preferences record unchanged.
C24_InitIdempotent ==
    [][/\ (\E s \in Slots : init_Opened(s) \/ init_Executed(s)) =>
             /\ memories' = memories
             /\ goals' = goals
             /\ TablesExist => prefs' = prefs
       /\ ( /\ db = "null"
            /\ \/ addMemory(TextNote(now))
               \/ \E name \in GoalNames : addFocusGoal(name)
               \/ updateUserPreferences([avatarIndex |-> 1]) ) =>
             /\ db' = "open"
             /\ DOMAIN prefs' = {1}
             /\ \A id \in DOMAIN memories : memories'[id] = memories[id]
             /\ \A id \in DOMAIN goals : goals'[id] = goals[id]]_vars

\* C24 witness: with a note, a goal and an updated avatar stored, an
\* initDatabase call has returned, and two further calls are both waiting for
\* their batch.
C24_Witness ==
    /\ ret.op = "initDatabase"
    /\ \E s, t \in Slots :
          s # t /\ calls[s].pc = "executing" /\ calls[t].pc = "executing"
    /\ memSeq = 1 /\ goalSeq = 1
    /\ DOMAIN prefs = {1} /\ prefs[1].avatarIndex = 1

ItemIds(items) == { items[i].id : i \in 1..Len(items) }

\* C26: in the process-local store an item added with addMemory is present in
\* items in every later state of the session, also when it was added before
\* the initial loadFromDisk resolved: no step of a session takes an item out.
C26_AddedItemStays ==
    [][ ~local'.loading => ItemIds(local.items) \subseteq ItemIds(local'.items) ]_vars

\* C27: in the process-local store, once no file write is pending, the file
\* holds the in-memory items and focusGoal of a loaded store.
C27_FileEqualsState ==
    (~local.loading /\ local.writes = {}) => local.file = <<StateOf(local)>>

\* Whether a list is in the order of createdAt, newest first.
NewestFirst(items) ==
    \A i \in 1..Len(items), j \in 1..Len(items) :
        i < j => items[i].createdAt >= items[j].createdAt

\* The list the Home screen shows: the store's sorted items, filtered.
HomeList(store) == filteredItems(sortedItems(store.items), store.focusGoal)

\* C30: on the process-local Home screen, an item quick-added without tags
\* while a focus goal is set is tagged with that goal and is in the filtered
\* list right after the add; with no focus goal the filtered list is the
\* full item list in the order of createdAt, newest first.
C30_QuickAddInFocus ==
    [][ /\ (local'.itemSeq = local.itemSeq + 1 /\ local.focusGoal # <<>>) =>
              /\ local'.items[1].tags = << <<local.focusGoal[1]>> >>
              /\ \E k \in 1..Len(HomeList(local')) :
                     HomeList(local')[k] = local'.items[1]
        /\ local'.focusGoal = <<>> =>
              /\ Len(HomeList(local')) = Len(local'.items)
              /\ ItemIds(HomeList(local')) = ItemIds(local'.items)
              /\ NewestFirst(HomeList(local')) ]_vars

\* An item quick-added under the Discover screen's goal is the one item of
\* the filtered list; the seeds, none of which names the goal, are left out.
C30_Witness ==
    /\ local.focusGoal = <<<<"a", "m", "l">>>>
    /\ Len(local.items) = 5
    /\ local.items[1].type = "quick"
    /\ local.items[1].tags = << <<<<"a", "m", "l">>>> >>
    /\ HomeList(local) = <<local.items[1]>>


\* C29: every record created through the text, voice, photo and link capture
\* screens is stored with a content that is not empty.
C29_ContentNotEmpty ==
    \A i \in DOMAIN memories : memories[i].content # <<>>

====
